---- MODULE Spec2Model ----
(***************************************************************************)
(* Model of the cprest package: the Client (token state, request dispatch, *)
(* OAuth2 authenticate) and the three resource operators built on it       *)
(* (ActiveSessionOperator, EndpointOperator, StaticHostListOperator).      *)
(* The HTTP transport is the environment: every request the client issues  *)
(* is answered with a response drawn from a small set.  The package is     *)
(* synchronous and single-threaded, so one call runs at a time; get_list   *)
(* is the only call that issues several requests and it is modelled one    *)
(* loop iteration per step.                                                *)
(***************************************************************************)
EXTENDS Integers, Sequences, FiniteSets, TLC

VARIABLES
    authorized_at,   \* Client._authorized_at
    access_token,    \* Client._access_token
    token_type,      \* Client._token_type
    expires_in,      \* Client._expires_in
    refresh_token,   \* Client._refresh_token
    pc,              \* "idle", or "get_list" while a pagination loop runs
    call,            \* the current (or last) public call: [name, args]
    count,           \* loop variable of get_list
    items,           \* the list get_list accumulates (sessions / endpoints)
    requests,        \* requests handed to the transport during the call
    responses,       \* responses the transport returned during the call
    ret              \* outcome of the call: [tag, val]

vars == <<authorized_at, access_token, token_type, expires_in, refresh_token,
          pc, call, count, items, requests, responses, ret>>

token == <<authorized_at, access_token, token_type, expires_in, refresh_token>>

-----------------------------------------------------------------------------
(* Bounds of the model. *)

\* largest max_requests a caller passes
MaxRequests == 3
\* largest in-range page size a caller passes
MaxLimit == 5
\* time.time() readings are drawn from 1..MaxTime
MaxTime == 1

-----------------------------------------------------------------------------
(* Python values. *)

\* Optional values: None is the empty tuple, a present value v is <<v>>.
None == <<>>
Some(v) == <<v>>

\* The empty dict {}.
EmptyDict == [k \in {} |-> 0]

\* dict.get(key, default)
KwGet(kwargs, key, default) ==
    IF key \in DOMAIN kwargs THEN kwargs[key] ELSE default

\* d[key] = value
DictSet(d, key, value) == (key :> value) @@ d

\* len(d) of a dict
DictLen(d) == Cardinality(DOMAIN d)

\* str(n) for a non-negative int, as the sequence of its decimal digits
Digit == <<"0", "1", "2", "3", "4", "5", "6", "7", "8", "9">>

RECURSIVE Str(_)
Str(n) == IF n < 10 THEN <<Digit[n + 1]>>
          ELSE Str(n \div 10) \o <<Digit[(n % 10) + 1]>>

\* "".join of a sequence of strings
RECURSIVE Join(_)
Join(s) == IF s = <<>> THEN "" ELSE Head(s) \o Join(Tail(s))

-----------------------------------------------------------------------------
(* Client: configuration and properties. *)

host == ""
port == 443
DefaultLimit == 1000
DefaultMaxRequests == 10

is_authorized == access_token # ""

authorization_header ==
    IF token_type # "" /\ access_token # ""
    THEN Some(token_type \o " " \o access_token)
    ELSE None

expiration_time ==
    IF authorized_at # 0 /\ expires_in # 0
    THEN Some(authorized_at + expires_in)
    ELSE None

base_url == Join(<<"https://", host, ":", Join(Str(port)), "/api">>)

-----------------------------------------------------------------------------
(* Client.request *)

Methods == {"GET", "POST", "PATCH", "PUT", "DELETE"}

ValidMethod(method) == method \in Methods

\* len(kwargs.get("body", ""))
BodyLen(kwargs) == IF "body" \in DOMAIN kwargs THEN DictLen(kwargs["body"]) ELSE 0

\* The request header dict built by request().
BuildHeaders(kwargs) ==
    LET h1 == IF is_authorized
              THEN DictSet(EmptyDict, "Authorization", authorization_header)
              ELSE EmptyDict
    IN  IF BodyLen(kwargs) > 0
        THEN DictSet(h1, "Content-Type", "application/json")
        ELSE h1

\* request(): raises ValueError, or hands a request to requests.request().
Request(method, resource, kwargs) ==
    IF ~ValidMethod(method)
    THEN [raise |-> TRUE, req |-> None]
    ELSE [raise |-> FALSE,
          req |-> [method  |-> method,
                   url     |-> base_url \o resource,
                   params  |-> KwGet(kwargs, "params", EmptyDict),
                   headers |-> BuildHeaders(kwargs),
                   json    |-> KwGet(kwargs, "body", EmptyDict)]]

\* The fixed-method shorthands.
Get(resource, kwargs) == Request("GET", resource, kwargs)
Post(resource, kwargs) == Request("POST", resource, kwargs)
Patch(resource, kwargs) == Request("PATCH", resource, kwargs)
Put(resource, kwargs) == Request("PUT", resource, kwargs)
Delete(resource, kwargs) == Request("DELETE", resource, kwargs)

-----------------------------------------------------------------------------
(* Outcomes of a call. *)

Pending == [tag |-> "pending", val |-> None]
Raised(e) == [tag |-> e, val |-> None]
ReturnNone == [tag |-> "None", val |-> None]
ReturnValue(v) == [tag |-> "value", val |-> v]
ReturnResponse(r) == [tag |-> "Response", val |-> r]

Call(name, args) == [name |-> name, args |-> args]

-----------------------------------------------------------------------------
(* Transport: the responses the server may send. *)

Statuses == {200, 201, 500}

Response(status, json) == [status |-> status, json |-> json]

-----------------------------------------------------------------------------
(* get_list of ActiveSessionOperator and EndpointOperator. *)

ListResource == [session |-> "/session", endpoint |-> "/endpoint"]
DefaultFilter == [session |-> "{\"acctstoptime\":{\"$exists\":false}}",
                  endpoint |-> "{}"]
DefaultSort == [session |-> "-id", endpoint |-> "+id"]

\* Variant of ValidLimit: the upper end of the range is not checked.
ValidLimit_NoUpper(limit) == 1 <= limit

ValidLimit(limit) == 1 <= limit /\ limit <= 1000

ValidMaxRequests(max_requests) == 1 <= max_requests

\* Variant of Offset: the page index is sent instead of the item offset.
Offset_PageIndex(limit, cnt) == cnt

Offset(limit, cnt) == limit * cnt

ListParams(cls, kwargs, limit, cnt) ==
    [filter |-> KwGet(kwargs, "filter", DefaultFilter[cls]),
     sort   |-> KwGet(kwargs, "sort", DefaultSort[cls]),
     offset |-> Str(Offset(limit, cnt)),
     limit  |-> Str(limit)]

\* json and "_embedded" in json and "items" in json["_embedded"]
WellFormed(json) ==
    /\ DictLen(json) > 0
    /\ "_embedded" \in DOMAIN json
    /\ "items" \in DOMAIN json["_embedded"]

\* Variant of PageOutcome: an empty page does not end the loop.
PageOutcome_NoBreak(r) ==
    IF r.status = 200
    THEN IF WellFormed(r.json) THEN "append" ELSE "bad_response"
    ELSE "http_error"

\* Variant of PageOutcome: a malformed envelope ends the loop like an empty
\* page, so the items accumulated so far are returned.
PageOutcome_PartialOnBad(r) ==
    IF r.status = 200
    THEN IF WellFormed(r.json) /\ Len(r.json["_embedded"]["items"]) > 0
         THEN "append"
         ELSE "break"
    ELSE "http_error"

\* What one loop iteration does with the response it got.
PageOutcome(r) ==
    IF r.status = 200
    THEN IF WellFormed(r.json)
         THEN IF Len(r.json["_embedded"]["items"]) > 0
              THEN "append"
              ELSE "break"
         ELSE "bad_response"
    ELSE "http_error"

\* Variant of LoopContinues: the loop runs one iteration too many.
LoopContinues_OffByOne(cnt, max_requests) == cnt + 1 <= max_requests

\* range(max_requests) has another value after cnt
LoopContinues(cnt, max_requests) == cnt + 1 < max_requests

\* The arguments callers pass to get_list.
LimitArgs == {0, 1, MaxLimit, 1000 + 1}
MaxRequestsArgs == 0 .. MaxRequests
GetListKwargs ==
    {[limit |-> l, max_requests |-> m] : l \in LimitArgs, m \in MaxRequestsArgs}

\* Pages the server may return to the request with loop index cnt.
PageSizes(limit) == {0, 1, limit - 1, limit} \cap (0 .. limit)
PageItems(cnt, n) == [j \in 1 .. n |-> <<cnt, j>>]
Envelope(its) == [_embedded |-> [items |-> its]]
BadBodies == {EmptyDict, [message |-> "x"], [_embedded |-> [total |-> 0]]}
ListResponses(limit, cnt) ==
    {Response(200, Envelope(PageItems(cnt, n))) : n \in PageSizes(limit)}
    \cup {Response(200, b) : b \in BadBodies}
    \cup {Response(500, EmptyDict)}

\* Entry of get_list: read the keyword arguments, validate, start the loop.
GetListCall ==
    \E cls \in {"session", "endpoint"}, kwargs \in GetListKwargs :
        LET limit == KwGet(kwargs, "limit", DefaultLimit)
            max_requests == KwGet(kwargs, "max_requests", DefaultMaxRequests)
        IN  /\ pc = "idle"
            /\ call' = Call("get_list", [cls |-> cls, kwargs |-> kwargs,
                                         limit |-> limit,
                                         max_requests |-> max_requests])
            /\ requests' = <<>>
            /\ responses' = <<>>
            /\ count' = 0
            /\ items' = <<>>
            /\ IF ~ValidLimit(limit) \/ ~ValidMaxRequests(max_requests)
               THEN /\ ret' = Raised("ValueError")
                    /\ pc' = "idle"
               ELSE /\ ret' = Pending
                    /\ pc' = "get_list"
            /\ UNCHANGED token

\* One iteration of the for loop: GET one page and process it; when the loop
\* ends (break, exhausted range, or return None) the call returns.
GetListPage ==
    /\ pc = "get_list"
    /\ LET a == call.args
           req == Get(ListResource[a.cls],
                      [params |-> ListParams(a.cls, a.kwargs, a.limit, count)]).req
       IN  \E r \in ListResponses(a.limit, count) :
               LET outcome == PageOutcome(r)
                   acc == IF outcome = "append"
                          THEN items \o r.json["_embedded"]["items"]
                          ELSE items
               IN  /\ requests' = Append(requests, req)
                   /\ responses' = Append(responses, r)
                   /\ IF outcome = "append" /\ LoopContinues(count, a.max_requests)
                      THEN /\ count' = count + 1
                           /\ items' = acc
                           /\ pc' = "get_list"
                           /\ ret' = Pending
                      ELSE /\ count' = 0
                           /\ items' = <<>>
                           /\ pc' = "idle"
                           /\ ret' = IF outcome \in {"append", "break"}
                                     THEN ReturnValue(acc)
                                     ELSE ReturnNone
    /\ UNCHANGED <<token, call>>

-----------------------------------------------------------------------------
(* Client.authenticate *)

GrantTypes == {"client_credentials", "password", "refresh_token"}

\* Variant of AuthBody: an unknown grant type is posted as it is.
AuthBody_NoRaise(grant_type, client_id, kwargs) ==
    LET body == [grant_type |-> grant_type, client_id |-> client_id]
    IN  IF grant_type = "client_credentials"
        THEN [raise |-> FALSE,
              body |-> DictSet(body, "client_secret",
                               KwGet(kwargs, "client_secret", ""))]
        ELSE IF grant_type = "password"
        THEN LET b2 == DictSet(DictSet(body, "username",
                                       KwGet(kwargs, "username", "")),
                               "password", KwGet(kwargs, "password", ""))
             IN  [raise |-> FALSE,
                  body |-> IF "client_secret" \in DOMAIN kwargs
                              /\ kwargs["client_secret"] # ""
                           THEN DictSet(b2, "client_secret",
                                        kwargs["client_secret"])
                           ELSE b2]
        ELSE IF grant_type = "refresh_token"
        THEN [raise |-> FALSE,
              body |-> DictSet(body, "refresh_token",
                               KwGet(kwargs, "refresh_token", ""))]
        ELSE [raise |-> FALSE, body |-> body]

\* Variant of AuthBody: the password grant always sends client_secret.
AuthBody_AlwaysSecret(grant_type, client_id, kwargs) ==
    LET body == [grant_type |-> grant_type, client_id |-> client_id]
    IN  IF grant_type = "client_credentials"
        THEN [raise |-> FALSE,
              body |-> DictSet(body, "client_secret",
                               KwGet(kwargs, "client_secret", ""))]
        ELSE IF grant_type = "password"
        THEN [raise |-> FALSE,
              body |-> DictSet(DictSet(DictSet(body, "username",
                                               KwGet(kwargs, "username", "")),
                                       "password",
                                       KwGet(kwargs, "password", "")),
                               "client_secret",
                               KwGet(kwargs, "client_secret", ""))]
        ELSE IF grant_type = "refresh_token"
        THEN [raise |-> FALSE,
              body |-> DictSet(body, "refresh_token",
                               KwGet(kwargs, "refresh_token", ""))]
        ELSE [raise |-> TRUE, body |-> EmptyDict]

\* The request body per grant type; raise marks the ValueError branch.
AuthBody(grant_type, client_id, kwargs) ==
    LET body == [grant_type |-> grant_type, client_id |-> client_id]
    IN  IF grant_type = "client_credentials"
        THEN [raise |-> FALSE,
              body |-> DictSet(body, "client_secret",
                               KwGet(kwargs, "client_secret", ""))]
        ELSE IF grant_type = "password"
        THEN LET b2 == DictSet(DictSet(body, "username",
                                       KwGet(kwargs, "username", "")),
                               "password", KwGet(kwargs, "password", ""))
             IN  [raise |-> FALSE,
                  body |-> IF "client_secret" \in DOMAIN kwargs
                              /\ kwargs["client_secret"] # ""
                           THEN DictSet(b2, "client_secret",
                                        kwargs["client_secret"])
                           ELSE b2]
        ELSE IF grant_type = "refresh_token"
        THEN [raise |-> FALSE,
              body |-> DictSet(body, "refresh_token",
                               KwGet(kwargs, "refresh_token", ""))]
        ELSE [raise |-> TRUE, body |-> EmptyDict]

\* Variant of AuthSucceeded: any 2xx status counts as success.
AuthSucceeded_Any2xx(r) == 200 <= r.status /\ r.status < 300

\* r.status_code == 200
AuthSucceeded(r) == r.status = 200

\* The token fields and the outcome after authenticate has processed the
\* response r, the clock reading t (time.time()).  The fields are assigned
\* one after another, so a key missing from the body (KeyError) leaves the
\* assignments before it done and those after it undone.
TokenAfter(tok, r, t) ==
    IF AuthSucceeded(r)
    THEN LET ks == DOMAIN r.json
             got1 == "access_token" \in ks
             got2 == got1 /\ "token_type" \in ks
             got3 == got2 /\ "expires_in" \in ks
         IN  [authorized_at |-> t,
              access_token  |-> IF got1 THEN r.json["access_token"]
                                ELSE tok.access_token,
              token_type    |-> IF got2 THEN r.json["token_type"]
                                ELSE tok.token_type,
              expires_in    |-> IF got3 THEN r.json["expires_in"]
                                ELSE tok.expires_in,
              refresh_token |-> IF got3 /\ "refresh_token" \in ks
                                THEN r.json["refresh_token"]
                                ELSE tok.refresh_token,
              ret           |-> IF got3 THEN ReturnNone ELSE Raised("KeyError")]
    ELSE [authorized_at |-> tok.authorized_at,
          access_token  |-> tok.access_token,
          token_type    |-> tok.token_type,
          expires_in    |-> tok.expires_in,
          refresh_token |-> tok.refresh_token,
          ret           |-> ReturnResponse(r)]

\* The arguments callers pass to authenticate.
GrantTypeArgs == GrantTypes \cup {"authorization_code"}
AuthKwargs ==
    {EmptyDict,
     [username |-> "u", password |-> "p"],
     [username |-> "u", password |-> "p", client_secret |-> ""],
     [username |-> "u", password |-> "p", client_secret |-> "s3cret",
      refresh_token |-> "rtok0"]}

\* The answers of the /oauth resource.
AuthBodies ==
    {[access_token |-> "tokA", token_type |-> "Bearer", expires_in |-> 3600],
     [access_token |-> "tokB", token_type |-> "Bearer", expires_in |-> 3600,
      refresh_token |-> "rtok1"],
     [access_token |-> "", token_type |-> "Bearer", expires_in |-> 3600],
     [access_token |-> "tokA", token_type |-> "", expires_in |-> 3600],
     [access_token |-> "tokA", token_type |-> "Bearer", expires_in |-> 0],
     [token_type |-> "Bearer", expires_in |-> 3600],
     [access_token |-> "tokA", expires_in |-> 3600],
     [access_token |-> "tokA", token_type |-> "Bearer"]}
AuthResponses ==
    {Response(200, b) : b \in AuthBodies}
    \cup {Response(401, [error |-> "invalid_client"]),
          Response(201, [access_token |-> "tokB", token_type |-> "Bearer",
                         expires_in |-> 3600])}
Times == 1 .. MaxTime

AuthenticateCall ==
    \E grant_type \in GrantTypeArgs, kwargs \in AuthKwargs :
        LET client_id == "client"
            b == AuthBody(grant_type, client_id, kwargs)
            tok == [authorized_at |-> authorized_at,
                    access_token  |-> access_token,
                    token_type    |-> token_type,
                    expires_in    |-> expires_in,
                    refresh_token |-> refresh_token]
        IN  /\ pc = "idle"
            /\ call' = Call("authenticate",
                            [grant_type |-> grant_type, client_id |-> client_id,
                             kwargs |-> kwargs])
            /\ IF b.raise
               THEN /\ ret' = Raised("ValueError")
                    /\ requests' = <<>>
                    /\ responses' = <<>>
                    /\ UNCHANGED token
               ELSE \E r \in AuthResponses, t \in Times :
                        LET after == TokenAfter(tok, r, t)
                        IN  /\ requests' = <<Post("/oauth", [body |-> b.body]).req>>
                            /\ responses' = <<r>>
                            /\ authorized_at' = after.authorized_at
                            /\ access_token' = after.access_token
                            /\ token_type' = after.token_type
                            /\ expires_in' = after.expires_in
                            /\ refresh_token' = after.refresh_token
                            /\ ret' = after.ret
            /\ UNCHANGED <<pc, count, items>>

-----------------------------------------------------------------------------
(* Direct use of Client.request and of its shorthands. *)

MethodArgs == Methods \cup {"HEAD"}
ShorthandName == [GET |-> "get", POST |-> "post", PATCH |-> "patch",
                  PUT |-> "put", DELETE |-> "delete"]
RequestKwargs ==
    {EmptyDict,
     [body |-> EmptyDict],
     [body |-> [a |-> "1"], params |-> [q |-> "1"]]}
PlainResponses == {Response(200, [id |-> 7]), Response(500, EmptyDict)}

\* A single-request call that has run to its end.
Done(name, args, reqs, resps, outcome) ==
    /\ pc = "idle"
    /\ call' = Call(name, args)
    /\ requests' = reqs
    /\ responses' = resps
    /\ ret' = outcome
    /\ UNCHANGED <<token, pc, count, items>>

RequestCall ==
    \E method \in MethodArgs, kwargs \in RequestKwargs :
        LET q == Request(method, "/x", kwargs)
            args == [method |-> method, kwargs |-> kwargs]
        IN  IF q.raise
            THEN Done("request", args, <<>>, <<>>, Raised("ValueError"))
            ELSE \E r \in PlainResponses :
                     Done("request", args, <<q.req>>, <<r>>, ReturnResponse(r))

\* get / post / patch / put / delete
ShorthandCall ==
    \E method \in Methods, kwargs \in RequestKwargs, r \in PlainResponses :
        Done(ShorthandName[method], [kwargs |-> kwargs],
             <<Request(method, "/x", kwargs).req>>, <<r>>, ReturnResponse(r))

-----------------------------------------------------------------------------
(* The single-request operators. *)

OpJsons == {EmptyDict, [id |-> 7], [id |-> 7, host_entries |-> <<"h2">>]}
OpResponses == {Response(st, j) : st \in Statuses, j \in OpJsons}

\* Variant of JsonIfStatus: any 2xx status counts as success.
JsonIfStatus_Any2xx(r, success) ==
    IF 200 <= r.status /\ r.status < 300 THEN ReturnValue(r.json) ELSE ReturnNone

\* return r.json() on the success status, else None
JsonIfStatus(r, success) ==
    IF r.status = success THEN ReturnValue(r.json) ELSE ReturnNone

\* ActiveSessionOperator.disconnect
DisconnectCall ==
    \E session_id \in {"s1"}, r \in OpResponses :
        Done("disconnect", [session_id |-> session_id],
             <<Post("/session/" \o session_id \o "/disconnect",
                    [body |-> [id |-> session_id,
                               confirm_disconnect |-> "true"]]).req>>,
             <<r>>, JsonIfStatus(r, 200))

\* ActiveSessionOperator.reauthorize
ReauthorizeCall ==
    \E session_id \in {"s1"}, profile \in {"p1"}, r \in OpResponses :
        Done("reauthorize", [session_id |-> session_id, profile |-> profile],
             <<Post("/session/" \o session_id \o "/reauthorize",
                    [body |-> [id |-> session_id,
                               confirm_reauthorize |-> "true",
                               reauthorize_profile |-> profile]]).req>>,
             <<r>>, JsonIfStatus(r, 200))

\* status in ["Known", "Unknown", "Disabled"]
ValidStatus(status) == status \in {"Known", "Unknown", "Disabled"}

\* body[key] = kwargs[key] for every listed key that is in kwargs
RECURSIVE CopyKeys(_, _, _)
CopyKeys(body, keys, kwargs) ==
    IF keys = <<>> THEN body
    ELSE CopyKeys(IF Head(keys) \in DOMAIN kwargs
                  THEN DictSet(body, Head(keys), kwargs[Head(keys)])
                  ELSE body,
                  Tail(keys), kwargs)

StatusArgs == {"Known", "Unknown", "Disabled", "Blocked"}
CreateKwargs == {EmptyDict, [description |-> "d"]}
UpdateKwargs == {EmptyDict, [status |-> "Known"]}

\* EndpointOperator.create
CreateCall ==
    \E mac_address \in {"AA:BB:CC:DD:EE:FF"}, status \in StatusArgs,
       kwargs \in CreateKwargs :
        LET args == [mac_address |-> mac_address, status |-> status,
                     kwargs |-> kwargs]
            body == CopyKeys([mac_address |-> mac_address, status |-> status],
                             <<"description", "device_insight_tags",
                               "attributes">>, kwargs)
        IN  IF ~ValidStatus(status)
            THEN Done("create", args, <<>>, <<>>, Raised("ValueError"))
            ELSE \E r \in OpResponses :
                     Done("create", args,
                          <<Post("/endpoint", [body |-> body]).req>>,
                          <<r>>, JsonIfStatus(r, 201))

\* EndpointOperator.update_fields_by_mac
UpdateFieldsByMacCall ==
    \E mac_address \in {"AA:BB:CC:DD:EE:FF"}, kwargs \in UpdateKwargs,
       r \in OpResponses :
        LET body == CopyKeys(EmptyDict,
                             <<"description", "status", "device_insight_tags",
                               "attributes">>, kwargs)
        IN  Done("update_fields_by_mac",
                 [mac_address |-> mac_address, kwargs |-> kwargs],
                 <<Patch("/endpoint/mac-address/" \o mac_address,
                         [body |-> body]).req>>,
                 <<r>>, JsonIfStatus(r, 200))

\* json and "host_entries" in json
HasHostEntries(json) == DictLen(json) > 0 /\ "host_entries" \in DOMAIN json

\* The result of get_host_entries and replace_host_entries; the bad-response
\* branch falls off the end of the function, which returns None as well.
HostEntriesResult(r) ==
    IF r.status = 200
    THEN IF HasHostEntries(r.json)
         THEN ReturnValue(r.json["host_entries"])
         ELSE ReturnNone
    ELSE ReturnNone

\* StaticHostListOperator.get_host_entries
GetHostEntriesCall ==
    \E name \in {"list1"}, r \in OpResponses :
        Done("get_host_entries", [name |-> name],
             <<Get("/static-host-list/name/" \o name, EmptyDict).req>>,
             <<r>>, HostEntriesResult(r))

\* len(host_entries) < 1 raises
ValidHostEntries(host_entries) == ~(Len(host_entries) < 1)

HostEntriesArgs == {<<>>, <<"h1">>}

\* StaticHostListOperator.replace_host_entries
ReplaceHostEntriesCall ==
    \E name \in {"list1"}, host_entries \in HostEntriesArgs :
        LET args == [name |-> name, host_entries |-> host_entries]
        IN  IF ~ValidHostEntries(host_entries)
            THEN Done("replace_host_entries", args, <<>>, <<>>,
                      Raised("ValueError"))
            ELSE \E r \in OpResponses :
                     Done("replace_host_entries", args,
                          <<Patch("/static-host-list/name/" \o name,
                                  [body |-> [host_entries |-> host_entries]]).req>>,
                          <<r>>, HostEntriesResult(r))

-----------------------------------------------------------------------------

Init ==
    /\ authorized_at = 0
    /\ access_token = ""
    /\ token_type = ""
    /\ expires_in = 0
    /\ refresh_token = ""
    /\ pc = "idle"
    /\ call = Call("__init__", EmptyDict)
    /\ count = 0
    /\ items = <<>>
    /\ requests = <<>>
    /\ responses = <<>>
    /\ ret = Pending

Next ==
    \/ GetListCall
    \/ GetListPage
    \/ AuthenticateCall
    \/ RequestCall
    \/ ShorthandCall
    \/ DisconnectCall
    \/ ReauthorizeCall
    \/ CreateCall
    \/ UpdateFieldsByMacCall
    \/ GetHostEntriesCall
    \/ ReplaceHostEntriesCall

Spec == Init /\ [][Next]_vars

\* Every request blocks until the transport answers or its timeout expires,
\* so a pagination loop that has been entered keeps taking its iterations.
FairSpec == Spec /\ WF_vars(GetListPage)

-----------------------------------------------------------------------------
(* Vocabulary of the properties. *)

\* The call in progress, or the last one, is a get_list whose arguments
\* passed validation.
InGetList ==
    /\ call.name = "get_list"
    /\ call.args.limit \in 1 .. 1000
    /\ call.args.max_requests >= 1

\* A page with status 200 and a body holding _embedded.items.
GoodPage(r) ==
    /\ r.status = 200
    /\ "_embedded" \in DOMAIN r.json
    /\ "items" \in DOMAIN r.json["_embedded"]

NumItems(r) == Len(r.json["_embedded"]["items"])

\* The items of pages 1..n of a sequence of good pages, in page order.
RECURSIVE ConcatPages(_, _)
ConcatPages(resps, n) ==
    IF n = 0 THEN <<>>
    ELSE ConcatPages(resps, n - 1) \o resps[n].json["_embedded"]["items"]

\* The integer a sequence of decimal digits denotes.
DigitValue(c) == CHOOSE d \in 0 .. 9 : Digit[d + 1] = c
RECURSIVE ParseInt(_)
ParseInt(ds) ==
    IF Len(ds) = 0 THEN 0
    ELSE 10 * ParseInt(SubSeq(ds, 1, Len(ds) - 1)) + DigitValue(ds[Len(ds)])

\* The call has returned a list.
ReturnedList == pc = "idle" /\ ret.tag = "value"

-----------------------------------------------------------------------------
(* C1 *)

\* C1 as stated: in a get_list over well-formed HTTP-200 pages, once page n
\* is the first page holding fewer than limit items, no request follows the
\* one for page n and the result is the concatenation of pages up to n.
C1_ShortPageStops ==
    (InGetList /\ \A i \in 1 .. Len(responses) : GoodPage(responses[i])) =>
        \A n \in 1 .. Len(responses) :
            (/\ NumItems(responses[n]) < call.args.limit
             /\ \A m \in 1 .. (n - 1) :
                    NumItems(responses[m]) >= call.args.limit)
            => /\ Len(requests) <= n
               /\ pc = "idle" => /\ ret.tag = "value"
                                 /\ ret.val = ConcatPages(responses, n)

\* C1, amended: in a get_list over well-formed HTTP-200 pages, once page n is
\* the first page holding zero items, the call has returned: no request
\* follows the one for page n, and the result is the concatenation of the
\* items of the pages up to n, also when n is below max_requests.  (A page
\* holding some but fewer than limit items does not stop the pagination.)
C1_EmptyPageStops ==
    (InGetList /\ \A i \in 1 .. Len(responses) : GoodPage(responses[i])) =>
        \A n \in 1 .. Len(responses) :
            (/\ NumItems(responses[n]) = 0
             /\ \A m \in 1 .. (n - 1) : NumItems(responses[m]) > 0)
            => /\ Len(requests) = n
               /\ Len(responses) = n
               /\ ReturnedList
               /\ ret.val = ConcatPages(responses, n)

\* A get_list that went past a short page and then stopped at an empty page
\* before max_requests was reached.
C1_Witness ==
    /\ InGetList
    /\ ReturnedList
    /\ Len(responses) >= 2
    /\ Len(responses) < call.args.max_requests
    /\ \A i \in 1 .. Len(responses) : GoodPage(responses[i])
    /\ NumItems(responses[Len(responses)]) = 0
    /\ \E m \in 1 .. (Len(responses) - 1) :
           /\ NumItems(responses[m]) > 0
           /\ NumItems(responses[m]) < call.args.limit
    /\ ret.val # <<>>

-----------------------------------------------------------------------------
(* C2 *)

\* C2: when a page fetched by get_list has a status other than 200 or a body
\* lacking _embedded.items, that page is the last one requested and the call
\* has returned None, never a list, whatever the earlier pages delivered.
C2_FailureReturnsNone ==
    InGetList =>
        \A n \in 1 .. Len(responses) :
            ~GoodPage(responses[n])
            => /\ Len(responses) = n
               /\ Len(requests) = n
               /\ pc = "idle"
               /\ ret.tag = "None"
               /\ ret.val = None

\* A get_list that failed on its third page after two pages with items.
C2_Witness ==
    /\ InGetList
    /\ pc = "idle"
    /\ Len(responses) = 3
    /\ GoodPage(responses[1]) /\ NumItems(responses[1]) > 0
    /\ GoodPage(responses[2]) /\ NumItems(responses[2]) > 0
    /\ responses[3].status = 200
    /\ ~GoodPage(responses[3])
    /\ ret.tag = "None"

-----------------------------------------------------------------------------
(* C3 *)

\* Every page received so far is an HTTP-200 page with exactly limit items.
AllPagesFull ==
    \A i \in 1 .. Len(responses) :
        GoodPage(responses[i]) /\ NumItems(responses[i]) = call.args.limit

\* C3: in a get_list with max_requests = K whose pages all hold exactly limit
\* items, requests and responses alternate, the i-th request (from 0) is a
\* GET carrying offset = limit * i and limit = limit, and the call returns
\* after exactly K requests with the K * limit items in page order.
C3_FullPages ==
    (InGetList /\ AllPagesFull) =>
        /\ Len(requests) = Len(responses)
        /\ \A i \in 1 .. Len(requests) :
               /\ requests[i].method = "GET"
               /\ ParseInt(requests[i].params.offset) = call.args.limit * (i - 1)
               /\ ParseInt(requests[i].params.limit) = call.args.limit
        /\ pc = "get_list" => Len(requests) < call.args.max_requests
        /\ pc = "idle" =>
               /\ Len(requests) = call.args.max_requests
               /\ ret.tag = "value"
               /\ Len(ret.val) = call.args.max_requests * call.args.limit
               /\ ret.val = ConcatPages(responses, call.args.max_requests)

\* A get_list with limit above 1 that ran to its cap of three full pages.
C3_Witness ==
    /\ InGetList
    /\ AllPagesFull
    /\ ReturnedList
    /\ call.args.limit > 1
    /\ call.args.max_requests = 3
    /\ Len(requests) = 3
    /\ Len(ret.val) = 3 * call.args.limit

-----------------------------------------------------------------------------
(* C4 *)

\* A get_list never issues more than max_requests requests and has returned
\* once it has issued that many; an HTTP-200 page with zero items is the last
\* page requested, and the call then returns exactly the items of the pages
\* before it, the empty list (not None) when it is page 0.
BoundedAndStopsAtEmpty ==
    InGetList =>
        /\ Len(requests) <= call.args.max_requests
        /\ Len(requests) = call.args.max_requests => pc = "idle"
        /\ \A n \in 1 .. Len(responses) :
               (GoodPage(responses[n]) /\ NumItems(responses[n]) = 0)
               => /\ Len(requests) = n
                  /\ ReturnedList
                  /\ ret.val = ConcatPages(responses, n - 1)
                  /\ n = 1 => ret.val = <<>>

\* C4: every get_list terminates, after at most max_requests requests, and it
\* stops at the first HTTP-200 page with zero items, returning exactly the
\* items of the pages before it (the empty list, not None, when page 0 is
\* empty).
C4_TerminatesAndStopsAtEmpty ==
    /\ [](BoundedAndStopsAtEmpty)
    /\ (pc = "get_list") ~> (pc = "idle")

\* A full page 0 followed by an empty page 1, well below the cap: exactly two
\* requests and exactly the items of page 0.
C4_Witness ==
    /\ InGetList
    /\ ReturnedList
    /\ call.args.limit > 1
    /\ call.args.max_requests = 3
    /\ Len(requests) = 2
    /\ GoodPage(responses[1]) /\ NumItems(responses[1]) = call.args.limit
    /\ GoodPage(responses[2]) /\ NumItems(responses[2]) = 0
    /\ ret.val = responses[1].json["_embedded"]["items"]

-----------------------------------------------------------------------------
(* C5 *)

\* The last call was an authenticate answered with HTTP 200 and a body
\* carrying access_token, token_type and expires_in.
AuthenticatedWithFullBody ==
    /\ call.name = "authenticate"
    /\ Len(responses) = 1
    /\ responses[1].status = 200
    /\ {"access_token", "token_type", "expires_in"} \subseteq DOMAIN responses[1].json

\* C5 as stated: after an authenticate that received HTTP 200 with a body
\* carrying access_token, token_type and expires_in, is_authorized is true,
\* authorization_header is "{token_type} {access_token}" of the response, and
\* expiration_time is present and is issued-at plus expires_in.
C5_AuthenticatedProperties ==
    AuthenticatedWithFullBody =>
        LET json == responses[1].json
        IN  /\ is_authorized
            /\ authorization_header
                   = Some(json["token_type"] \o " " \o json["access_token"])
            /\ expiration_time = Some(authorized_at + json["expires_in"])

-----------------------------------------------------------------------------
(* C6 *)

\* C6: an authenticate call with a grant type other than client_credentials,
\* password or refresh_token raises ValueError, issues no request and leaves
\* the five token fields as they were before the call.
C6_UnsupportedGrant ==
    [][(/\ pc = "idle"
        /\ call'.name = "authenticate"
        /\ call'.args.grant_type
               \notin {"client_credentials", "password", "refresh_token"})
       => /\ ret'.tag = "ValueError"
          /\ requests' = <<>>
          /\ responses' = <<>>
          /\ authorized_at' = authorized_at
          /\ access_token' = access_token
          /\ token_type' = token_type
          /\ expires_in' = expires_in
          /\ refresh_token' = refresh_token]_vars

\* An authenticate with an unsupported grant type, rejected while a token
\* obtained earlier is held.
C6_Witness ==
    /\ call.name = "authenticate"
    /\ call.args.grant_type = "authorization_code"
    /\ ret.tag = "ValueError"
    /\ requests = <<>>
    /\ access_token = "tokB"
    /\ token_type = "Bearer"
    /\ expires_in = 3600
    /\ refresh_token = "rtok1"
    /\ authorized_at # 0

-----------------------------------------------------------------------------
(* C7 *)

\* C7: a step changes a token field only if it is an authenticate call that
\* received HTTP 200; an authenticate call that received another status
\* returns the response object and changes no token field.
C7_TokenFrame ==
    [][/\ token' # token
          => /\ pc = "idle"
             /\ call'.name = "authenticate"
             /\ Len(responses') = 1
             /\ responses'[1].status = 200
       /\ (/\ pc = "idle"
           /\ call'.name = "authenticate"
           /\ Len(responses') = 1
           /\ responses'[1].status # 200)
          => /\ token' = token
             /\ ret'.tag = "Response"
             /\ ret'.val = responses'[1]]_vars

\* An authenticate answered with 401 while a token obtained earlier is held:
\* the response is returned and the token stays in force.
C7_Witness ==
    /\ call.name = "authenticate"
    /\ Len(responses) = 1
    /\ responses[1].status = 401
    /\ ret.tag = "Response"
    /\ access_token = "tokA"
    /\ authorization_header = Some("Bearer tokA")

-----------------------------------------------------------------------------
(* C8 *)

\* C8 as stated: in every reachable state the access token and the token
\* type are both empty or both non-empty.
C8_TokenPairInvariant == (access_token = "") <=> (token_type = "")

-----------------------------------------------------------------------------
(* C9 *)

\* C9: a call that raised ValueError issued no request; and get_list with
\* limit outside [1,1000] or max_requests below 1, create with a status
\* outside Known/Unknown/Disabled, replace_host_entries with no entries and
\* request with a method outside GET/POST/PATCH/PUT/DELETE raise ValueError.
C9_InvalidArgument ==
    /\ ret.tag = "ValueError" => Len(requests) = 0 /\ Len(responses) = 0
    /\ (/\ call.name = "get_list"
        /\ \/ call.args.limit < 1
           \/ call.args.limit > 1000
           \/ call.args.max_requests < 1)
       => ret.tag = "ValueError"
    /\ (/\ call.name = "create"
        /\ call.args.status \notin {"Known", "Unknown", "Disabled"})
       => ret.tag = "ValueError"
    /\ (/\ call.name = "replace_host_entries"
        /\ Len(call.args.host_entries) = 0)
       => ret.tag = "ValueError"
    /\ (/\ call.name = "request"
        /\ call.args.method \notin {"GET", "POST", "PATCH", "PUT", "DELETE"})
       => ret.tag = "ValueError"

\* A get_list whose limit is just above the range, rejected without a
\* request although max_requests is valid.
C9_Witness ==
    /\ call.name = "get_list"
    /\ call.args.limit = 1001
    /\ call.args.max_requests >= 1
    /\ ret.tag = "ValueError"
    /\ requests = <<>>

-----------------------------------------------------------------------------
(* C10 *)

\* The fields the body of a grant type is to have.
ExpectedAuthFields(grant_type, kwargs) ==
    {"grant_type", "client_id"} \cup
    CASE grant_type = "client_credentials" -> {"client_secret"}
      [] grant_type = "refresh_token" -> {"refresh_token"}
      [] grant_type = "password" ->
             {"username", "password"} \cup
             (IF "client_secret" \in DOMAIN kwargs /\ kwargs["client_secret"] # ""
              THEN {"client_secret"} ELSE {})

\* C10: an authenticate call with a supported grant type posts one request
\* to /oauth whose body has exactly the fields of the grant type:
\* client_secret for client_credentials, refresh_token for refresh_token,
\* username and password for password plus client_secret if and only if a
\* non-empty client_secret was supplied; the fields carry the arguments.
C10_AuthBodyFields ==
    (/\ call.name = "authenticate"
     /\ call.args.grant_type \in {"client_credentials", "password", "refresh_token"})
    => /\ Len(requests) = 1
       /\ requests[1].method = "POST"
       /\ requests[1].url = "https://:443/api/oauth"
       /\ DOMAIN requests[1].json
              = ExpectedAuthFields(call.args.grant_type, call.args.kwargs)
       /\ requests[1].json["grant_type"] = call.args.grant_type
       /\ requests[1].json["client_id"] = call.args.client_id
       /\ \A k \in DOMAIN requests[1].json \ {"grant_type", "client_id"} :
              requests[1].json[k]
                  = IF k \in DOMAIN call.args.kwargs
                    THEN call.args.kwargs[k] ELSE ""

\* A password grant called with an empty client_secret: the body posted has
\* no client_secret field.
C10_Witness ==
    /\ call.name = "authenticate"
    /\ call.args.grant_type = "password"
    /\ "client_secret" \in DOMAIN call.args.kwargs
    /\ call.args.kwargs["client_secret"] = ""
    /\ Len(requests) = 1
    /\ DOMAIN requests[1].json
           = {"grant_type", "client_id", "username", "password"}

-----------------------------------------------------------------------------
(* C11 *)

\* The request a step hands to the transport: the last one of the log, in a
\* step that leaves the log non-empty.
Dispatches == Len(requests') > 0
Dispatched == requests'[Len(requests')]

\* The request carries the header: the key is set to a value.  (A header set
\* to None is not sent by the transport.)
Carries(req, header) ==
    /\ header \in DOMAIN req.headers
    /\ req.headers[header] # None

\* C11 as stated: every request dispatched through request() carries an
\* Authorization header if and only if the client is authorized at that
\* moment, its value is then "{token_type} {access_token}" of the token
\* state of that moment, it carries Content-Type: application/json if and
\* only if a non-empty body was supplied, and a request issued before any
\* authenticate received 200 carries no Authorization header.
C11_RequestHeaders ==
    [][Dispatches =>
           /\ Carries(Dispatched, "Authorization") <=> is_authorized
           /\ is_authorized =>
                  /\ "Authorization" \in DOMAIN Dispatched.headers
                  /\ Dispatched.headers["Authorization"]
                         = Some(token_type \o " " \o access_token)
           /\ "Content-Type" \in DOMAIN Dispatched.headers
                  <=> DictLen(Dispatched.json) > 0
           /\ "Content-Type" \in DOMAIN Dispatched.headers
                  => Dispatched.headers["Content-Type"] = "application/json"
           /\ authorized_at = 0
                  => "Authorization" \notin DOMAIN Dispatched.headers]_vars

-----------------------------------------------------------------------------
(* C12 *)

SingleRequestOperators ==
    {"disconnect", "reauthorize", "create", "update_fields_by_mac",
     "get_host_entries", "replace_host_entries"}

\* The status an operator takes for success.
SuccessStatus(name) == IF name = "create" THEN 201 ELSE 200

\* The response is the success response of the operator.
Succeeded(name, r) ==
    /\ r.status = SuccessStatus(name)
    /\ name \in {"get_host_entries", "replace_host_entries"}
           => "host_entries" \in DOMAIN r.json

\* C12: a single-request operator whose arguments passed validation issues
\* exactly one request and returns a result if and only if the response has
\* its success status, otherwise None: 200 for disconnect, reauthorize and
\* update_fields_by_mac, 201 for create, and 200 together with a body
\* holding host_entries for get_host_entries and replace_host_entries.  The
\* result is the decoded body, for the host list operators its host_entries.
C12_SingleRequestResult ==
    (call.name \in SingleRequestOperators /\ ret.tag # "ValueError") =>
        /\ pc = "idle"
        /\ Len(requests) = 1
        /\ Len(responses) = 1
        /\ ret.tag \in {"value", "None"}
        /\ ret.tag = "value" <=> Succeeded(call.name, responses[1])
        /\ ret.tag = "None" => ret.val = None
        /\ ret.tag = "value" =>
               ret.val = IF call.name \in {"get_host_entries",
                                           "replace_host_entries"}
                         THEN responses[1].json["host_entries"]
                         ELSE responses[1].json

\* HTTP 500 on the PATCH of /endpoint/mac-address/AA:BB:CC:DD:EE:FF:
\* update_fields_by_mac issued that one request and returned None.
C12_Witness ==
    /\ call.name = "update_fields_by_mac"
    /\ call.args.mac_address = "AA:BB:CC:DD:EE:FF"
    /\ Len(requests) = 1
    /\ requests[1].method = "PATCH"
    /\ requests[1].url = "https://:443/api/endpoint/mac-address/AA:BB:CC:DD:EE:FF"
    /\ responses[1].status = 500
    /\ ret.tag = "None"

====
